---------------------------- MODULE Spec2Model ----------------------------
(***************************************************************************)
(* The Plet lexers of doc/pygments/lexers.py as a state machine.           *)
(*                                                                         *)
(* PletLexer and TxtPletLexer are pygments RegexLexers: the file gives the *)
(* rule tables (`tokens`), and the scan loop is the one they inherit,      *)
(* RegexLexer.get_tokens_unprocessed(text, stack=('root',)):                *)
(*                                                                         *)
(*   pos = 0; statestack = ['root']                                        *)
(*   while 1:                                                              *)
(*     for rexmatch, action, new_state in tokendefs[statestack[-1]]:       *)
(*       m = rexmatch(text, pos)                                           *)
(*       if m:                                                             *)
(*         yield pos, action, m.group(); pos = m.end()                     *)
(*         if new_state is not None:                                       *)
(*            tuple : statestack.append(state) for each state              *)
(*            int   : ('#pop' is -1)  if abs(n) >= len(statestack):        *)
(*                        del statestack[1:]  else: del statestack[n:]     *)
(*         break                                                           *)
(*     else:                                                               *)
(*       try:                                                              *)
(*         if text[pos] == '\n':                                           *)
(*           statestack = ['root']; yield pos, Whitespace, '\n'; pos += 1  *)
(*           continue                                                      *)
(*         yield pos, Error, text[pos]; pos += 1                           *)
(*       except IndexError: break                                          *)
(*                                                                         *)
(* A text is a sequence of one-character strings; an index is 1-based, so  *)
(* the cursor pos (the number of characters consumed) stands before the    *)
(* character text[pos + 1].  Python's re module is modelled by what it     *)
(* matches: each pattern of the tables is an operator giving the length of *)
(* its match anchored at an index, or NoMatch.                             *)
(***************************************************************************)
EXTENDS Integers, Sequences, FiniteSets

VARIABLES lexer, input, pos, stack, tokens, done

vars == <<lexer, input, pos, stack, tokens, done>>

----------------------------------------------------------------------------
(* Characters and character classes of Python's re.                        *)

NoMatch == 0 - 1

Letters ==
  {"a","b","c","d","e","f","g","h","i","j","k","l","m","n","o","p","q","r",
   "s","t","u","v","w","x","y","z","A","B","C","D","E","F","G","H","I","J",
   "K","L","M","N","O","P","Q","R","S","T","U","V","W","X","Y","Z"}

DigitChars == {"0","1","2","3","4","5","6","7","8","9"}

SpaceChars == {" ", "\t", "\n", "\r", "\f"}

WordChars == Letters \cup DigitChars \cup {"_"}

\* text[i], or "" (no character) outside the text
At(text, i) == IF i >= 1 /\ i <= Len(text) THEN text[i] ELSE ""

Minimum(S) == CHOOSE x \in S : \A y \in S : x <= y

\* the index of the first character at or after i that is not in class cls
\* (Len(text) + 1 when the run reaches the end): a greedy cls*
InClass(cls, c) ==
  CASE cls = "digit"         -> c \in DigitChars
    [] cls = "word"          -> c \in WordChars
    [] cls = "space"         -> c \in SpaceChars
    [] cls = "notbrace"      -> c # "{"
    [] cls = "notquotebrace" -> c # "\"" /\ c # "{"
    [] OTHER                 -> FALSE

RECURSIVE RunEnd(_, _, _)
RunEnd(text, i, cls) ==
  IF i > Len(text) \/ ~InClass(cls, text[i]) THEN i
  ELSE RunEnd(text, i + 1, cls)

\* \b between text[i-1] and text[i]
WordBoundary(text, i) ==
  (At(text, i - 1) \in WordChars) # (At(text, i) \in WordChars)

\* the literal word w is at index i
LiteralAt(text, i, w) ==
  /\ i + Len(w) - 1 <= Len(text)
  /\ \A k \in 1..Len(w) : text[i + k - 1] = w[k]

----------------------------------------------------------------------------
(* The patterns of the rule tables.                                        *)

KeywordWords ==
  { <<"i","f">>, <<"t","h","e","n">>, <<"e","l","s","e">>, <<"f","o","r">>,
    <<"i","n">>, <<"s","w","i","t","c","h">>, <<"c","a","s","e">>,
    <<"d","e","f","a","u","l","t">>, <<"e","n","d">>, <<"a","n","d">>,
    <<"o","r">>, <<"n","o","t">>, <<"d","o">>,
    <<"e","x","p","o","r","t">>, <<"r","e","t","u","r","n">>,
    <<"b","r","e","a","k">>, <<"c","o","n","t","i","n","u","e">> }

ConstantWords ==
  { <<"t","r","u","e">>, <<"f","a","l","s","e">>, <<"n","i","l">> }

\* \{\#.*?\#\} : {# , the fewest characters other than newline, #}
BlockCommentLen(text, i) ==
  LET ends == {j \in (i + 2)..(Len(text) - 1) :
                 /\ text[j] = "#"
                 /\ text[j + 1] = "}"
                 /\ \A k \in (i + 2)..(j - 1) : text[k] # "\n"}
  IN  IF At(text, i) = "{" /\ At(text, i + 1) = "#" /\ ends # {}
      THEN Minimum(ends) + 2 - i
      ELSE NoMatch

\* #.*?\n : # , the fewest characters other than newline, a newline
LineCommentLen(text, i) ==
  LET nls == {j \in (i + 1)..Len(text) : text[j] = "\n"}
  IN  IF At(text, i) = "#" /\ nls # {}
      THEN Minimum(nls) + 1 - i
      ELSE NoMatch

\* (mutant) one of the words, without the word boundary after it
WordsLenNoBoundary(text, i, words) ==
  LET hit == {w \in words : LiteralAt(text, i, w)}
  IN  IF hit = {} THEN NoMatch ELSE Len(CHOOSE w \in hit : TRUE)

\* (w1|w2|...)\b : one of the words (all start with a letter), then a word
\* boundary
WordsLen(text, i, words) ==
  LET hit == {w \in words : LiteralAt(text, i, w)
                            /\ WordBoundary(text, i + Len(w))}
  IN  IF At(text, i) \notin Letters \/ hit = {} THEN NoMatch
      ELSE Len(CHOOSE w \in hit : TRUE)

\* '(\\\\|\\[^\\]|[^'\\])*' : the index of the closing quote, scanning from i
RECURSIVE SingleQuoteClose(_, _)
SingleQuoteClose(text, i) ==
  IF i > Len(text) THEN NoMatch
  ELSE IF text[i] = "'" THEN i
  ELSE IF text[i] = "\\"
       THEN IF i + 1 <= Len(text) THEN SingleQuoteClose(text, i + 2)
            ELSE NoMatch
  ELSE SingleQuoteClose(text, i + 1)

SingleQuotedLen(text, i) ==
  IF At(text, i) # "'" THEN NoMatch
  ELSE LET c == SingleQuoteClose(text, i + 1)
       IN  IF c = NoMatch THEN NoMatch ELSE c + 1 - i

\* \b[0-9]+(\.[0-9]+)?([eE][-+]?[0-9]+)?\b : the optional groups are greedy,
\* and the match backtracks to a shorter alternative when the final \b fails
ExponentEnd(text, i) ==
  LET s == IF At(text, i + 1) \in {"-", "+"} THEN i + 2 ELSE i + 1
  IN  IF At(text, i) \in {"e", "E"} /\ At(text, s) \in DigitChars
      THEN RunEnd(text, s, "digit")
      ELSE NoMatch

NumberLen(text, i) ==
  LET d  == RunEnd(text, i, "digit")
      f  == IF At(text, d) = "." /\ At(text, d + 1) \in DigitChars
            THEN RunEnd(text, d + 1, "digit") ELSE NoMatch
      fe == IF f = NoMatch THEN NoMatch ELSE ExponentEnd(text, f)
      de == ExponentEnd(text, d)
      ok(e) == e # NoMatch /\ WordBoundary(text, e)
  IN  IF ~(At(text, i) \in DigitChars /\ WordBoundary(text, i)) THEN NoMatch
      ELSE IF ok(fe) THEN fe - i
      ELSE IF ok(f)  THEN f - i
      ELSE IF ok(de) THEN de - i
      ELSE IF ok(d)  THEN d - i
      ELSE NoMatch

\* \b[a-zA-Z_][a-zA-Z0-9_]*\b
NameLen(text, i) ==
  IF At(text, i) \in (Letters \cup {"_"}) /\ WordBoundary(text, i)
  THEN RunEnd(text, i, "word") - i
  ELSE NoMatch

\* \+|-|\*|/|<=|>=|==|!=|<|>|=|\?
OperatorLen(text, i) ==
  IF At(text, i) \in {"+", "-", "*", "/"} THEN 1
  ELSE IF At(text, i) \in {"<", ">", "=", "!"} /\ At(text, i + 1) = "=" THEN 2
  ELSE IF At(text, i) \in {"<", ">", "=", "?"} THEN 1
  ELSE NoMatch

\* (mutant) the class repeated zero times or more: * for +
ClassStarLen(text, i, cls) == RunEnd(text, i, cls) - i

\* a class repeated once or more: [^{]+ , [^"{]+ , \s+
ClassPlusLen(text, i, cls) ==
  LET e == RunEnd(text, i, cls)
  IN  IF e > i THEN e - i ELSE NoMatch

\* a literal
LiteralLen(text, i, w) ==
  IF LiteralAt(text, i, w) THEN Len(w) ELSE NoMatch

\* . (re.MULTILINE only: any character but a newline)
DotLen(text, i) ==
  IF At(text, i) # "" /\ At(text, i) # "\n" THEN 1 ELSE NoMatch

\* A pattern is a literal (\[ , \( , \{ , \} , \] , \) , " , """), a class
\* repeated once or more, or one of the named patterns above.
Lit(w) == [form |-> "literal", arg |-> w]

Plus(cls) == [form |-> "class+", arg |-> cls]

Pat(name) == [form |-> "named", arg |-> name]

\* the length of pattern pat's match at index i of text, or NoMatch
MatchLen(pat, text, i) ==
  CASE pat.form = "literal" -> LiteralLen(text, i, pat.arg)
    [] pat.form = "class+"  -> ClassPlusLen(text, i, pat.arg)
    [] pat.arg = "name"          -> NameLen(text, i)
    [] pat.arg = "keyword"       -> WordsLen(text, i, KeywordWords)
    [] pat.arg = "constant"      -> WordsLen(text, i, ConstantWords)
    [] pat.arg = "blockcomment"  -> BlockCommentLen(text, i)
    [] pat.arg = "linecomment"   -> LineCommentLen(text, i)
    [] pat.arg = "singlequoted"  -> SingleQuotedLen(text, i)
    [] pat.arg = "number"        -> NumberLen(text, i)
    [] pat.arg = "operator"      -> OperatorLen(text, i)
    [] pat.arg = "punctuation"   ->
         IF At(text, i) \in {".", ",", ":", "|"} THEN 1 ELSE NoMatch
    [] pat.arg = "dot"           -> DotLen(text, i)
    [] OTHER                     -> NoMatch

----------------------------------------------------------------------------
(* The rule tables: (pattern, token type, new state); new state "" is none. *)

Rule(p, t, n) == [pat |-> p, tok |-> t, new |-> n]

TripleQuote == <<"\"", "\"", "\"">>

command ==
  << Rule(Pat("blockcomment"), "Comment.Multiline", ""),
     Rule(Pat("linecomment"), "Comment.Single", ""),
     Rule(Pat("keyword"), "Keyword", ""),
     Rule(Pat("constant"), "Keyword.Constant", ""),
     Rule(Pat("singlequoted"), "String.Single", ""),
     Rule(Pat("number"), "Number", ""),
     Rule(Pat("name"), "Name", ""),
     Rule(Pat("operator"), "Operator", ""),
     Rule(Pat("punctuation"), "Punctuation", ""),
     Rule(Lit(<<"[">>), "Punctuation", "array"),
     Rule(Lit(<<"(">>), "Punctuation", "expression"),
     Rule(Lit(<<"{">>), "Punctuation", "object"),
     Rule(Lit(<<"}">>), "Comment.Preproc", "template"),
     Rule(Lit(TripleQuote), "String", "verbatim"),
     Rule(Lit(<<"\"">>), "String", "string"),
     Rule(Plus("space"), "Whitespace", "") >>

\* (mutant) the standalone lexer's root holds the template-text rules
root_template_text ==
  << Rule(Plus("notbrace"), "Other", ""),
     Rule(Pat("blockcomment"), "Comment.Multiline", ""),
     Rule(Lit(<<"{">>), "Comment.Preproc", "statements") >>

root == command

\* (mutant) the template's { pushes Statements, as the string's does
template_pushes ==
  << Rule(Plus("notbrace"), "String", ""),
     Rule(Pat("blockcomment"), "Comment.Multiline", ""),
     Rule(Lit(<<"{">>), "Comment.Preproc", "statements") >>

template ==
  << Rule(Plus("notbrace"), "String", ""),
     Rule(Pat("blockcomment"), "Comment.Multiline", ""),
     Rule(Lit(<<"{">>), "Comment.Preproc", "#pop") >>

\* (mutant) the string's { pushes 'object'
string_pushes_object ==
  << Rule(Plus("notquotebrace"), "String", ""),
     Rule(Pat("blockcomment"), "Comment.Multiline", ""),
     Rule(Lit(<<"{">>), "Comment.Preproc", "object"),
     Rule(Lit(<<"\"">>), "String", "#pop") >>

string ==
  << Rule(Plus("notquotebrace"), "String", ""),
     Rule(Pat("blockcomment"), "Comment.Multiline", ""),
     Rule(Lit(<<"{">>), "Comment.Preproc", "statements"),
     Rule(Lit(<<"\"">>), "String", "#pop") >>

\* (mutant) the verbatim state interpolates: its { pushes Statements
verbatim_interpolates ==
  << Rule(Lit(TripleQuote), "String", "#pop"),
     Rule(Lit(<<"{">>), "Comment.Preproc", "statements"),
     Rule(Pat("dot"), "String", "") >>

verbatim ==
  << Rule(Lit(TripleQuote), "String", "#pop"),
     Rule(Pat("dot"), "String", "") >>

\* (mutant) the statements state without its closer
statements_no_closer == command

statements == << Rule(Lit(<<"}">>), "Comment.Preproc", "#pop") >> \o command

\* (mutant) the object state without its closer
object_no_closer == command

object == << Rule(Lit(<<"}">>), "Punctuation", "#pop") >> \o command

\* (mutant) the array state closed by ) instead of ]
array_paren_closer == << Rule(Lit(<<")">>), "Punctuation", "#pop") >> \o command

array == << Rule(Lit(<<"]">>), "Punctuation", "#pop") >> \o command

expression == << Rule(Lit(<<")">>), "Punctuation", "#pop") >> \o command

\* (mutant) the root's { pops, as the template state's does
txt_root_pop ==
  << Rule(Plus("notbrace"), "Other", ""),
     Rule(Pat("blockcomment"), "Comment.Multiline", ""),
     Rule(Lit(<<"{">>), "Comment.Preproc", "#pop") >>

txt_root ==
  << Rule(Plus("notbrace"), "Other", ""),
     Rule(Pat("blockcomment"), "Comment.Multiline", ""),
     Rule(Lit(<<"{">>), "Comment.Preproc", "statements") >>

Lexers == {"PletLexer", "TxtPletLexer"}

\* the rules of a state for a lexer class: TxtPletLexer replaces 'root' and
\* inherits the other states
TokenDefs(lx, state) ==
  CASE state = "root"       -> IF lx = "TxtPletLexer" THEN txt_root ELSE root
    [] state = "command"    -> command
    [] state = "template"   -> template
    [] state = "string"     -> string
    [] state = "verbatim"   -> verbatim
    [] state = "statements" -> statements
    [] state = "object"     -> object
    [] state = "array"      -> array
    [] state = "expression" -> expression


----------------------------------------------------------------------------
(* The scan: RegexLexer.get_tokens_unprocessed over the tables above.      *)

\* the index of the first rule among rules[r..] that matches at the cursor,
\* in the declared order; 0 when none does
RECURSIVE FirstFrom(_, _, _, _)
FirstFrom(rules, r, text, p) ==
  IF r > Len(rules) THEN 0
  ELSE IF MatchLen(rules[r].pat, text, p + 1) # NoMatch THEN r
  ELSE FirstFrom(rules, r + 1, text, p)

\* the rules of the state on top of the stack
Current(lx, stk) == TokenDefs(lx, stk[Len(stk)])

FirstMatch(lx, stk, text, p) == FirstFrom(Current(lx, stk), 1, text, p)

\* (mutant) the token keeps only the first character of the match
TokenTextFirst(text, p, n) == SubSeq(text, p + 1, p + 1)

\* m.group() of a match of n characters at the cursor
TokenText(text, p, n) == SubSeq(text, p + 1, p + n)

Token(t, s) == [kind |-> t, text |-> s]

\* '#pop' is stored as -1: del statestack[-1:], or del statestack[1:] when
\* abs(-1) >= len(statestack), which keeps the bottom state
PopState(stk) ==
  IF 1 >= Len(stk) THEN SubSeq(stk, 1, 1) ELSE SubSeq(stk, 1, Len(stk) - 1)

\* the state transition of a matched rule
NewStack(stk, new) ==
  CASE new = ""     -> stk
    [] new = "#pop" -> PopState(stk)
    [] OTHER        -> Append(stk, new)

\* the stack after no rule matched at a newline: reset to 'root'
ResetStack(stk) == <<"root">>

\* the token for a character no rule matched
UnmatchedToken(c) ==
  IF c = "\n" THEN Token("Whitespace", <<c>>) ELSE Token("Error", <<c>>)

\* (mutant) any rule of the current state that matches may fire, not the
\* first one only
MatchRuleAny ==
  /\ ~done
  /\ \E r \in 1..Len(Current(lexer, stack)) :
       LET rule == Current(lexer, stack)[r]
           n    == MatchLen(rule.pat, input, pos + 1)
       IN  /\ n # NoMatch
           /\ tokens' = Append(tokens, Token(rule.tok, TokenText(input, pos, n)))
           /\ pos' = pos + n
           /\ stack' = NewStack(stack, rule.new)
  /\ UNCHANGED <<lexer, input, done>>

\* a rule of the current state matched at the cursor
MatchRule ==
  /\ ~done
  /\ LET r    == FirstMatch(lexer, stack, input, pos)
         rule == Current(lexer, stack)[r]
         n    == MatchLen(rule.pat, input, pos + 1)
     IN  /\ r # 0
         /\ tokens' = Append(tokens, Token(rule.tok, TokenText(input, pos, n)))
         /\ pos' = pos + n
         /\ stack' = NewStack(stack, rule.new)
  /\ UNCHANGED <<lexer, input, done>>

\* no rule matched and a character is left: the for loop's else branch
Unmatched ==
  /\ ~done
  /\ pos < Len(input)
  /\ FirstMatch(lexer, stack, input, pos) = 0
  /\ tokens' = Append(tokens, UnmatchedToken(input[pos + 1]))
  /\ pos' = pos + 1
  /\ stack' = IF input[pos + 1] = "\n" THEN ResetStack(stack) ELSE stack
  /\ UNCHANGED <<lexer, input, done>>

\* no rule matched and text[pos] raises IndexError: the scan is over
EndOfInput ==
  /\ ~done
  /\ pos >= Len(input)
  /\ FirstMatch(lexer, stack, input, pos) = 0
  /\ done' = TRUE
  /\ UNCHANGED <<lexer, input, pos, stack, tokens>>

Next == MatchRule \/ Unmatched \/ EndOfInput

----------------------------------------------------------------------------
(* The inputs of a scan: every concatenation of a bounded number of chunks *)
(* of a chunk set.                                                         *)

RECURSIVE Flatten(_)
Flatten(ss) == IF ss = <<>> THEN <<>> ELSE Head(ss) \o Flatten(Tail(ss))

Inputs(chunks, n) ==
  UNION { {Flatten(f) : f \in [1..k -> chunks]} : k \in 0..n }

\* get_tokens_unprocessed(text): pos = 0, statestack = ['root']
InitWith(texts) ==
  /\ lexer \in Lexers
  /\ input \in texts
  /\ pos = 0
  /\ stack = <<"root">>
  /\ tokens = <<>>
  /\ done = FALSE

MaxChunks == 3

Chunks ==
  { <<"{">>, <<"}">>, <<"[">>, <<"]">>, <<"(">>, <<")">>, <<"\"">>,
    TripleQuote, <<"\n">>, <<"a">>, <<"#">>, <<"'">>, <<"1">> }

Init == InitWith(Inputs(Chunks, MaxChunks))

Spec == Init /\ [][Next]_vars

\* The scan loop runs until it breaks: Next is taken as long as it is
\* enabled.  Termination is checked over the structural chunks alone.
TermChunks ==
  { <<"{">>, <<"}">>, <<"[">>, <<"]">>, <<"\"">>, <<"\n">>, <<"a">> }

FairInit == InitWith(Inputs(TermChunks, MaxChunks))

FairSpec == FairInit /\ [][Next]_vars /\ WF_vars(Next)

\* Nesting is checked over the openers and closers alone, one chunk deeper.
MaxNest == 4

NestChunks ==
  { <<"[">>, <<"]">>, <<"(">>, <<")">>, <<"{">>, <<"}">>, <<"\"">> }

NestInit == InitWith(Inputs(NestChunks, MaxNest))

NestSpec == NestInit /\ [][Next]_vars

\* String interpolation is checked over quotes, braces and #, deeper still.
MaxString == 6

StringChunks == { <<"\"">>, <<"{">>, <<"}">>, <<"#">> }

StringInit == InitWith(Inputs(StringChunks, MaxString))

StringSpec == StringInit /\ [][Next]_vars

\* Well-formed inputs: assembled from properly closed, properly nested
\* constructs only, to a nesting depth of MaxDepth.
MaxDepth == 2

\* what may stand between """ and """: any characters
VerbatimBodies ==
  { <<>>, <<"a">>, <<"{">>, <<"}">>, <<"[">>, <<"(">>, <<"a", "\"", "b">>,
    <<"\n">>, <<"a", "\n", "b">> }

\* what may stand between {# and #} and between # and the end of the line
CommentBodies == { <<>>, <<"a">>, <<"[">>, <<"\"">> }

\* template text, and the text of a double-quoted string
TextBodies == { <<>>, <<"a">>, <<"a", "\"", "]">> }

StringBodies == { <<>>, <<"a">>, <<"a", "]", "}">> }

Enclose(open, bodies, close) == { open \o b \o close : b \in bodies }

\* the closed constructs of code, their bodies drawn from code
Constructs(code) ==
  Enclose(<<"[">>, code, <<"]">>)
    \cup Enclose(<<"(">>, code, <<")">>)
    \cup Enclose(<<"{">>, code, <<"}">>)
    \cup Enclose(<<"\"">>,
                 StringBodies \cup Enclose(<<"{">>, code, <<"}">>)
                   \cup Enclose(<<"a", "{">>, code, <<"}", "b">>),
                 <<"\"">>)
    \cup Enclose(TripleQuote, VerbatimBodies, TripleQuote)
    \cup Enclose(<<"{", "#">>, CommentBodies, <<"#", "}">>)
    \cup Enclose(<<"#">>, CommentBodies, <<"\n">>)

\* well-formed code nested at most d deep, and two constructs in a row
RECURSIVE Code(_)
Code(d) ==
  IF d = 0 THEN { <<>>, <<"a">> }
  ELSE Code(d - 1) \cup Constructs(Code(d - 1))
         \cup (IF d = 1 THEN {}
               ELSE { x \o <<" ">> \o y : x, y \in Constructs(Code(0)) })

\* a PletLexer input: code, or code } template text { code
CodeDocuments ==
  Code(MaxDepth)
    \cup { x \o <<"}">> \o t \o <<"{">> \o y :
             x \in Code(1), t \in TextBodies, y \in {<<>>, <<"a">>} }

\* a TxtPletLexer input: template text { code } template text
TextDocuments ==
  TextBodies
    \cup { t \o <<"{">> \o x \o <<"}">> \o u :
             t \in {<<>>, <<"a">>}, x \in Code(MaxDepth), u \in TextBodies }

WellFormedInit ==
  /\ \/ lexer = "PletLexer" /\ input \in CodeDocuments
     \/ lexer = "TxtPletLexer" /\ input \in TextDocuments
  /\ pos = 0
  /\ stack = <<"root">>
  /\ tokens = <<>>
  /\ done = FALSE

WellFormedSpec == WellFormedInit /\ [][Next]_vars

\* Literal runs are checked over quotes, backslashes, braces, the comment
\* brackets and newlines.
MaxLiteral == 4

LiteralChunks ==
  { <<"\"">>, <<"\\">>, <<"{", "#">>, <<"#", "}">>, <<"\n">>, <<"a">>,
    <<"{">>, <<"}">> }

LiteralInit == InitWith(Inputs(LiteralChunks, MaxLiteral))

LiteralSpec == LiteralInit /\ [][Next]_vars

\* Words are checked over a keyword, letters and digits that extend it, and
\* the openers of the code modes.
MaxWords == 4

WordChunks ==
  { <<"i", "f">>, <<"f", "y">>, <<"1">>, <<" ">>, <<"{">>, <<"[">>, <<"(">> }

WordInit == InitWith(Inputs(WordChunks, MaxWords))

WordSpec == WordInit /\ [][Next]_vars

----------------------------------------------------------------------------
(* Vocabulary of the properties.                                           *)

Top(stk) == stk[Len(stk)]

Below(stk) == SubSeq(stk, 1, Len(stk) - 1)

LastToken == tokens[Len(tokens)]

\* the text of all tokens emitted so far, in emission order
Emitted == Flatten([k \in 1..Len(tokens) |-> tokens[k].text])

\* the cursor stands before character c, and a step is due
ScanningAt(c) == ~done /\ pos < Len(input) /\ input[pos + 1] = c

\* the rule about to fire, when one matches
NextRule == Current(lexer, stack)[FirstMatch(lexer, stack, input, pos)]

RuleMatches == ~done /\ FirstMatch(lexer, stack, input, pos) # 0

\* the Code-family modes: the command rules, alone (PletLexer's root) or
\* behind a closer
CodeFamily(lx, st) ==
  \/ st \in {"command", "statements", "object", "array", "expression"}
  \/ st = "root" /\ lx = "PletLexer"

\* the literal-text modes
LiteralText(lx, st) ==
  \/ st \in {"template", "string"}
  \/ st = "root" /\ lx = "TxtPletLexer"

----------------------------------------------------------------------------
\* C1 (losslessness): in every state of a scan, from either root, the texts
\* of the tokens emitted so far concatenate to exactly the consumed prefix
\* input[0..pos), and a finished scan has consumed, hence emitted, the whole
\* input.
C1_Lossless ==
  /\ pos <= Len(input)
  /\ Emitted = SubSeq(input, 1, pos)
  /\ done => Emitted = input

\* a finished scan of several tokens, one of them longer than a character
C1_Witness ==
  /\ done
  /\ Len(tokens) >= 2
  /\ \E k \in 1..Len(tokens) : Len(tokens[k].text) >= 2

\* C2 (totality and termination): the cursor never passes the end of the
\* input; every step of the scan but the one that ends it advances the
\* cursor by at least one character (no rule matches the empty string); the
\* ending step happens only with the whole input consumed; and every scan,
\* of a truncated input too, does end, at pos = Len(input) and with at least
\* one token emitted when the input is not empty.
C2_Terminates ==
  /\ [][\/ pos' > pos
        \/ done' /\ pos' = pos /\ pos = Len(input)]_vars
  /\ [](pos <= Len(input))
  /\ <>(done /\ pos = Len(input) /\ (input # <<>> => tokens # <<>>))

\* a finished scan of a truncated input: modes are still open at the end
C2_Witness ==
  /\ done
  /\ Len(stack) >= 3
  /\ tokens # <<>>

\* C3 (no-match recovery), as claimed: whenever no rule of the mode on top
\* matches at the cursor, the step consumes exactly that character, emits it
\* as one Error token and leaves the stack as it is.
C3_NoMatchRecovery ==
  [][(~done /\ pos < Len(input)
        /\ FirstMatch(lexer, stack, input, pos) = 0)
      => /\ pos' = pos + 1
         /\ tokens' = Append(tokens, Token("Error", <<input[pos + 1]>>))
         /\ stack' = stack]_vars

\* C4 (root stays at the bottom): the stack is never empty, its bottom is
\* the root, the root is nowhere else, and a popping rule is about to fire
\* only when the stack is deeper than one.
C4_RootAtBottom ==
  /\ Len(stack) >= 1
  /\ stack[1] = "root"
  /\ \A k \in 2..Len(stack) : stack[k] # "root"
  /\ (RuleMatches /\ NextRule.new = "#pop") => Len(stack) > 1

\* a pop has brought the stack back to the root alone
C4_Witness ==
  /\ stack = <<"root">>
  /\ tokens # <<>>
  /\ LastToken = Token("Comment.Preproc", <<"}">>)
  /\ lexer = "TxtPletLexer"

\* a } is about to be scanned with a Code-family mode on top
ClosingBraceInCode == ScanningAt("}") /\ CodeFamily(lexer, Top(stack))

\* C5, as claimed: a } scanned while a Code-family mode is on top pops that
\* mode and never pushes one.
C5_ClosingBracePops ==
  [][ClosingBraceInCode => stack' = Below(stack)]_vars

\* C5, amended: a } scanned while Statements or Object is on top pops
\* exactly that mode; scanned while the root command mode, Array or
\* Expression is on top it pops nothing and pushes Template.
C5_ClosingBrace ==
  [][ClosingBraceInCode =>
       IF Top(stack) \in {"statements", "object"}
       THEN stack' = Below(stack)
       ELSE stack' = Append(stack, "template")]_vars

\* an object literal was opened and closed, and the next } pushed Template
C5_Witness ==
  /\ lexer = "PletLexer"
  /\ Len(tokens) = 3
  /\ tokens[2] = Token("Punctuation", <<"}">>)
  /\ tokens[3] = Token("Comment.Preproc", <<"}">>)
  /\ stack = <<"root", "template">>

\* C6, as claimed: after a } scanned while a Code-family mode is on top, the
\* mode on top is a literal-text mode, an Object on top included.
C6_LiteralAfterBrace ==
  [][ClosingBraceInCode => LiteralText(lexer, Top(stack'))]_vars

\* C6, amended: after a } scanned while the root command mode, Statements,
\* Array or Expression is on top, the mode on top is a literal-text mode
\* (Template, the template-text root or QuotedString); after the } that
\* closes an Object the mode on top is the Code-family mode the object
\* literal was opened in.  In a literal-text mode every character that is
\* not a { (nor, in QuotedString, a ") starts a literal token and leaves the
\* stack alone.
C6_ModeAfterBrace ==
  [][/\ ClosingBraceInCode =>
          IF Top(stack) = "object"
          THEN CodeFamily(lexer, Top(stack'))
          ELSE LiteralText(lexer, Top(stack'))
     /\ (/\ ~done
         /\ pos < Len(input)
         /\ LiteralText(lexer, Top(stack))
         /\ input[pos + 1] # "{"
         /\ ~(Top(stack) = "string" /\ input[pos + 1] = "\""))
        => /\ LastToken'.kind \in {"String", "Other"}
           /\ stack' = stack]_vars

\* the text after the } of an object literal was scanned as code
C6_Witness ==
  /\ lexer = "PletLexer"
  /\ Len(tokens) = 3
  /\ tokens[2] = Token("Punctuation", <<"}">>)
  /\ tokens[3] = Token("Name", <<"a">>)
  /\ stack = <<"root">>

\* C7 (verbatim strings), as claimed: with Verbatim on top, the closing """
\* pops exactly that mode, and every other character is emitted as String
\* text and leaves the stack as it is.
C7_VerbatimLiteral ==
  [][(~done /\ pos < Len(input) /\ Top(stack) = "verbatim") =>
       IF LiteralAt(input, pos + 1, TripleQuote)
       THEN stack' = Below(stack)
       ELSE /\ stack' = stack
            /\ pos' = pos + 1
            /\ LastToken' = Token("String", <<input[pos + 1]>>)]_vars

\* C8 (mode-stack balance), as claimed: the scan of an input built only
\* from properly closed, properly nested constructs, verbatim strings of
\* any body among them, ends with the stack it started with, the root alone.
C8_Balanced == done => stack = <<"root">>

\* text[i..] is a properly nested sequence of ( ) [ ] alone, given the
\* closers still expected
RECURSIVE BracketsBalanced(_, _, _)
BracketsBalanced(text, i, expected) ==
  IF i > Len(text) THEN expected = <<>>
  ELSE CASE text[i] = "(" ->
              BracketsBalanced(text, i + 1, Append(expected, ")"))
         [] text[i] = "[" ->
              BracketsBalanced(text, i + 1, Append(expected, "]"))
         [] text[i] \in {")", "]"} ->
              /\ expected # <<>>
              /\ Top(expected) = text[i]
              /\ BracketsBalanced(text, i + 1, Below(expected))
         [] OTHER -> FALSE

\* the closer c, scanned with anything on top, pops exactly when mode is on
\* top, and then pops only it; in the other Code-family modes it changes
\* nothing
CloserPairs(c, mode) ==
  ScanningAt(c) =>
    /\ (Top(stack) = mode) <=> (Len(stack') < Len(stack))
    /\ (Top(stack) = mode) => (stack' = Below(stack))
    /\ (CodeFamily(lexer, Top(stack)) /\ Top(stack) # mode) => (stack' = stack)

\* the opener c, scanned in a Code-family mode, pushes mode
OpenerPushes(c, mode) ==
  (ScanningAt(c) /\ CodeFamily(lexer, Top(stack)))
    => (stack' = Append(stack, mode))

\* C9 (bracket pairing): ] pops a mode if and only if Array is on top, and )
\* if and only if Expression is on top, each popping exactly that mode; in
\* any other Code-family mode the closer leaves the stack as it is; [ and (
\* push Array and Expression.  So a scan of properly nested brackets ends
\* with the stack it had before the first of them: the root alone, or the
\* root and the mode a leading { pushed.
C9_BracketPairing ==
  [][/\ CloserPairs("]", "array")
     /\ CloserPairs(")", "expression")
     /\ OpenerPushes("[", "array")
     /\ OpenerPushes("(", "expression")
     /\ (done' /\ BracketsBalanced(input, 1, <<>>)) => (stack' = <<"root">>)
     /\ (/\ done'
         /\ input # <<>>
         /\ Head(input) = "{"
         /\ BracketsBalanced(Tail(input), 1, <<>>))
        => (stack' = <<"root", IF lexer = "PletLexer" THEN "object"
                                ELSE "statements">>)]_vars

\* ( [ ] ) was scanned as code and the stack is back at the root
C9_Witness ==
  /\ done
  /\ lexer = "PletLexer"
  /\ input = <<"(", "[", "]", ")">>
  /\ Len(tokens) = 4
  /\ stack = <<"root">>

\* a " is about to be scanned with a Code-family mode on top
QuoteInCode == ScanningAt("\"") /\ CodeFamily(lexer, Top(stack))

\* a step changes the stack at its top only, or resets it
TopOnly ==
  \/ stack' = stack
  \/ stack' = Below(stack)
  \/ Below(stack') = stack
  \/ stack' = <<"root">>

\* what closes an interpolation and a string, and what is string text
InterpolationCloses ==
  /\ (ScanningAt("}") /\ Top(stack) = "statements") => (stack' = Below(stack))
  /\ (ScanningAt("\"") /\ Top(stack) = "string") => (stack' = Below(stack))
  /\ (/\ ~done
      /\ pos < Len(input)
      /\ Top(stack) = "string"
      /\ input[pos + 1] \notin {"\"", "{"})
     => (LastToken'.kind = "String" /\ stack' = stack)
  /\ TopOnly

\* double-quoted strings, properly closed, interpolations included
StringRoundTrips ==
  { <<"\"", "\"">>,
    <<"\"", "{", "}", "\"">>,
    <<"\"", "#", "{", "}", "#", "\"">>,
    <<"\"", "{", "\"", "\"", "}", "\"">>,
    <<"\"", "{", "#", "#", "}", "\"">> }

\* C10 (string interpolation), as claimed: every " scanned in a Code-family
\* mode pushes QuotedString, every { scanned in QuotedString pushes
\* Statements, the } of the interpolation pops back to the string and the
\* closing " pops the string.
C10_Interpolation ==
  [][/\ QuoteInCode => (stack' = Append(stack, "string"))
     /\ (ScanningAt("{") /\ Top(stack) = "string")
        => (stack' = Append(stack, "statements"))
     /\ InterpolationCloses]_vars

\* C10, amended: a " scanned in a Code-family mode pushes QuotedString unless
\* it is the first of three, which push Verbatim; a { scanned in
\* QuotedString pushes Statements unless it starts a {# #} comment, which
\* leaves the stack alone; the } scanned with that Statements on top pops
\* back to the same QuotedString, where the text that follows is String text
\* again; a " scanned in that interpolation opens a nested string; the
\* closing " pops QuotedString, and as every step changes the stack at its
\* top only, the stack is then the one before the opening ": a properly
\* closed string scanned from the command root ends at the root alone.
C10_InterpolationAmended ==
  [][/\ QuoteInCode =>
          IF LiteralAt(input, pos + 1, TripleQuote)
          THEN stack' = Append(stack, "verbatim")
          ELSE stack' = Append(stack, "string")
     /\ (ScanningAt("{") /\ Top(stack) = "string") =>
          IF BlockCommentLen(input, pos + 1) # NoMatch
          THEN stack' = stack
          ELSE stack' = Append(stack, "statements")
     /\ InterpolationCloses
     /\ (done' /\ lexer = "PletLexer" /\ input \in StringRoundTrips)
        => (stack' = <<"root">>)]_vars

\* a string with a nested string in its interpolation was scanned and closed
C10_Witness ==
  /\ done
  /\ lexer = "PletLexer"
  /\ input = <<"\"", "{", "\"", "\"", "}", "\"">>
  /\ Len(tokens) = 6
  /\ tokens[3] = Token("String", <<"\"">>)
  /\ tokens[5] = Token("Comment.Preproc", <<"}">>)
  /\ stack = <<"root">>

\* the indices of character c in text
IndicesOf(text, c) == {i \in 1..Len(text) : text[i] = c}

Maximum(S) == CHOOSE x \in S : \A y \in S : x >= y

\* C11 (asymmetric-brace resumption), as claimed: the template-text scan of
\* prefix { code } suffix, the code made of properly closed constructs only,
\* emits the prefix as one literal token, then the { as a token of its own,
\* which leaves exactly one code mode above the root, then code tokens, none
\* of them literal text or an error, then the } as a token of its own, and
\* then the suffix as one literal token, and ends with the root alone.
C11_Resumption ==
  (lexer = "TxtPletLexer" /\ IndicesOf(input, "{") # {}) =>
    LET open   == Minimum(IndicesOf(input, "{"))
        close  == Maximum(IndicesOf(input, "}"))
        first  == IF open > 1 THEN 2 ELSE 1
        last   == IF close < Len(input) THEN Len(tokens) - 1 ELSE Len(tokens)
    IN  /\ pos = open => stack = <<"root", "statements">>
        /\ done =>
             /\ stack = <<"root">>
             /\ Len(tokens) >= first + 1
             /\ open > 1 =>
                  tokens[1] = Token("Other", SubSeq(input, 1, open - 1))
             /\ tokens[first] = Token("Comment.Preproc", <<"{">>)
             /\ \A k \in (first + 1)..(last - 1) :
                  tokens[k].kind \notin {"Other", "Error"}
             /\ tokens[last] = Token("Comment.Preproc", <<"}">>)
             /\ close < Len(input) =>
                  LastToken = Token("Other",
                                    SubSeq(input, close + 1, Len(input)))

\* the text before the first { of the input, or the whole input
BeforeFirstBrace ==
  IF IndicesOf(input, "{") = {} THEN input
  ELSE SubSeq(input, 1, Minimum(IndicesOf(input, "{")) - 1)

\* C12 (initial mode), as claimed: the standalone lexer (PletLexer) starts
\* with the root alone, in template-text mode: the input before the first {
\* is emitted as literal text.
C12_StandaloneStartsInText ==
  /\ pos = 0 => stack = <<"root">>
  /\ (lexer = "PletLexer" /\ tokens # <<>> /\ input[1] # "{") =>
       /\ tokens[1].kind \in {"Other", "String"}
       /\ tokens[1].text = BeforeFirstBrace

\* C12, amended: every scan starts with the root alone.  The root of the
\* standalone lexer (PletLexer) is the command mode: its input is classified
\* as code from the first character on (a leading identifier is a Name, never
\* literal text) and a leading { opens an object literal.  The root of the
\* lexer for host documents (TxtPletLexer) is the template-text mode: the
\* input before the first { is one literal token and the first { pushes
\* Statements.
C12_InitialMode ==
  /\ pos = 0 => stack = <<"root">>
  /\ (tokens # <<>> /\ input[1] # "{") =>
       IF lexer = "TxtPletLexer"
       THEN tokens[1] = Token("Other", BeforeFirstBrace)
       ELSE /\ tokens[1].kind # "Other"
            /\ input[1] = "a" => tokens[1].kind = "Name"
            /\ input[1] = "[" => tokens[1].kind = "Punctuation"
            /\ input[1] = "}" => tokens[1].kind = "Comment.Preproc"
  /\ (Len(tokens) = 1 /\ input[1] = "{"
        /\ BlockCommentLen(input, 1) = NoMatch) =>
       stack = <<"root", IF lexer = "TxtPletLexer" THEN "statements"
                         ELSE "object">>

\* the standalone lexer has emitted a leading identifier as a Name
C12_Witness ==
  /\ lexer = "PletLexer"
  /\ input # <<>>
  /\ tokens = << Token("Name", <<"a">>) >>
  /\ stack = <<"root">>

\* C13 (escaped quotes), as claimed: with QuotedString on top, a " that
\* directly follows a backslash is string text and leaves the stack as it
\* is; a " that does not follow a backslash pops QuotedString.
C13_EscapedQuote ==
  [][(ScanningAt("\"") /\ Top(stack) = "string") =>
       IF At(input, pos) = "\\"
       THEN stack' = stack /\ LastToken'.kind = "String"
       ELSE stack' = Below(stack)]_vars

\* the indices j after a {# at index i where a #} begins
CommentClosers(text, i) ==
  {j \in (i + 2)..(Len(text) - 1) : text[j] = "#" /\ text[j + 1] = "}"}

\* C14 (comments in literal runs), as claimed: in Template, in the
\* template-text root and in QuotedString, a {# followed anywhere later by a
\* #}, whatever lies between them, newlines included, is emitted up to the
\* first such #} as one block-comment token and leaves the stack as it is.
C14_CommentInLiteral ==
  [][(/\ ~done
      /\ LiteralText(lexer, Top(stack))
      /\ LiteralAt(input, pos + 1, <<"{", "#">>)
      /\ CommentClosers(input, pos + 1) # {})
     => LET j == Minimum(CommentClosers(input, pos + 1))
        IN  /\ LastToken' =
                 Token("Comment.Multiline", SubSeq(input, pos + 1, j + 1))
            /\ pos' = j + 1
            /\ stack' = stack]_vars

\* the maximal run of identifier characters that starts at the cursor
RunAtCursor == SubSeq(input, pos + 1, RunEnd(input, pos + 1, "word") - 1)

\* the cursor is in code, before the first character of an identifier run
AtRunInCode ==
  /\ ~done
  /\ CodeFamily(lexer, Top(stack))
  /\ At(input, pos) \notin WordChars
  /\ At(input, pos + 1) \in Letters \cup {"_"}

StartsWithKeyword(run) ==
  \E w \in KeywordWords : Len(w) < Len(run) /\ SubSeq(run, 1, Len(w)) = w

\* C15 (rule priority): in every Code-family mode, a maximal run of
\* identifier characters that is exactly a keyword is emitted as one Keyword
\* token, and a run that only starts with a keyword is emitted whole as one
\* Name token; neither changes the stack.
C15_KeywordPriority ==
  [][AtRunInCode =>
       /\ RunAtCursor \in KeywordWords =>
            LastToken' = Token("Keyword", RunAtCursor)
       /\ (RunAtCursor \notin KeywordWords /\ StartsWithKeyword(RunAtCursor)) =>
            LastToken' = Token("Name", RunAtCursor)
       /\ pos' = pos + Len(RunAtCursor)
       /\ Len(tokens') = Len(tokens) + 1
       /\ stack' = stack]_vars

\* if iffy was scanned as code: a Keyword, a space, then one Name
C15_Witness ==
  /\ CodeFamily(lexer, Top(stack))
  /\ Len(tokens) = 3
  /\ tokens[1] = Token("Keyword", <<"i", "f">>)
  /\ tokens[3] = Token("Name", <<"i", "f", "f", "y">>)

\* the whole scan as a function of the lexer and the text: the tokens and
\* the stack the loop ends with, from cursor p, stack stk and tokens toks
RECURSIVE Scan(_, _, _, _, _)
Scan(lx, text, p, stk, toks) ==
  LET r    == FirstMatch(lx, stk, text, p)
      rule == Current(lx, stk)[r]
      n    == MatchLen(rule.pat, text, p + 1)
  IN  IF r # 0
      THEN Scan(lx, text, p + n, NewStack(stk, rule.new),
                Append(toks, Token(rule.tok, TokenText(text, p, n))))
      ELSE IF p < Len(text)
      THEN Scan(lx, text, p + 1,
                IF text[p + 1] = "\n" THEN ResetStack(stk) ELSE stk,
                Append(toks, UnmatchedToken(text[p + 1])))
      ELSE [tokens |-> toks, stack |-> stk]

\* the one step the loop takes from a scan state: the first matching rule in
\* the declared order, or the no-match fallback, or the end of the scan
OnlyStep ==
  LET r    == FirstMatch(lexer, stack, input, pos)
      rule == Current(lexer, stack)[r]
      n    == MatchLen(rule.pat, input, pos + 1)
  IN  IF r # 0
      THEN << pos + n, NewStack(stack, rule.new),
              Append(tokens, Token(rule.tok, TokenText(input, pos, n))),
              FALSE >>
      ELSE IF pos < Len(input)
      THEN << pos + 1,
              IF input[pos + 1] = "\n" THEN ResetStack(stack) ELSE stack,
              Append(tokens, UnmatchedToken(input[pos + 1])),
              FALSE >>
      ELSE << pos, stack, tokens, TRUE >>

ExactlyOne(a, b, c) ==
  \/ a /\ ~b /\ ~c
  \/ ~a /\ b /\ ~c
  \/ ~a /\ ~b /\ c

\* C16 (determinism): in every state of an unfinished scan exactly one of
\* the three steps is enabled, and in a finished one none; the state after a
\* step is a function of the state before it, the lexer and the input never
\* change; so the tokens and the stack a scan ends with are a function of
\* the lexer (the initial mode) and the input.
C16_Deterministic ==
  /\ [](IF done
        THEN ~(ENABLED MatchRule) /\ ~(ENABLED Unmatched)
               /\ ~(ENABLED EndOfInput)
        ELSE ExactlyOne(ENABLED MatchRule, ENABLED Unmatched,
                        ENABLED EndOfInput))
  /\ [][/\ <<pos', stack', tokens', done'>> = OnlyStep
        /\ lexer' = lexer
        /\ input' = input]_vars
  /\ [](done =>
          /\ tokens = Scan(lexer, input, 0, <<"root">>, <<>>).tokens
          /\ stack = Scan(lexer, input, 0, <<"root">>, <<>>).stack)

\* a finished scan in which a rule fired where a later rule matched as well:
\* the triple quote before the quote
C16_Witness ==
  /\ done
  /\ tokens = << Token("String", TripleQuote) >>
  /\ stack = <<"root", "verbatim">>

\* the index of the last character of the line that text[i] is on: its
\* newline, or the last character of the text when no newline follows
LineEnd(text, i) ==
  LET nls == {j \in i..Len(text) : text[j] = "\n"}
  IN  IF nls = {} THEN Len(text) ELSE Minimum(nls)

\* C17 (line comments), as claimed: a # scanned in a Code-family mode starts
\* a line comment that runs to the end of its line, be that a newline or the
\* end of the input: the step emits the whole run as one line-comment token
\* and leaves the stack as it is.
C17_LineComment ==
  [][(ScanningAt("#") /\ CodeFamily(lexer, Top(stack))) =>
       /\ pos' = LineEnd(input, pos + 1)
       /\ LastToken' = Token("Comment.Single", SubSeq(input, pos + 1, pos'))
       /\ stack' = stack]_vars

\* C18 (a bare { in Template re-enters code): a step puts Template on top
\* only by pushing it for a } scanned in a Code-family mode; so whenever
\* Template is on top the mode directly beneath it is a Code-family mode;
\* and a { scanned with Template on top that does not begin a comment pops
\* Template alone, which makes that Code-family mode the top again.
C18_TemplateReentersCode ==
  [][/\ (Top(stack') = "template" /\ stack' # stack) =>
          (ClosingBraceInCode /\ stack' = Append(stack, "template"))
     /\ Top(stack') = "template" =>
          /\ Len(stack') >= 2
          /\ CodeFamily(lexer, Top(Below(stack')))
     /\ (/\ ScanningAt("{")
         /\ Top(stack) = "template"
         /\ BlockCommentLen(input, pos + 1) = NoMatch) =>
          /\ stack' = Below(stack)
          /\ CodeFamily(lexer, Top(stack'))
          /\ LastToken' = Token("Comment.Preproc", <<"{">>)]_vars

\* Template was pushed over an array and popped again by a {
C18_Witness ==
  /\ Len(tokens) = 3
  /\ tokens[2] = Token("Comment.Preproc", <<"}">>)
  /\ tokens[3] = Token("Comment.Preproc", <<"{">>)
  /\ stack = <<"root", "array">>

\* C19 (stack shape): Template and Verbatim occur only as the top of the
\* stack; a Statements entry is directly above a QuotedString entry or
\* above the template-text root; the root occurs only at the bottom.
C19_StackShape ==
  \A k \in 1..Len(stack) :
    /\ stack[k] \in {"template", "verbatim"} => k = Len(stack)
    /\ stack[k] = "statements" =>
         /\ k >= 2
         /\ \/ stack[k - 1] = "string"
            \/ stack[k - 1] = "root" /\ lexer = "TxtPletLexer"
    /\ stack[k] = "root" <=> k = 1

\* Statements above a string, an array above it and Template on top
C19_Witness ==
  stack = <<"root", "string", "statements", "array", "template">>

============================================================================
